---- MODULE Spec2Model ----
(***************************************************************************)
(* Model of SSHDeviceAdapter (device_test_core/ssh/device.py).             *)
(*                                                                         *)
(* Strings are sequences of pieces (a piece is a TLA+ string standing for  *)
(* one or more characters); concatenation of strings is \o.  Paths that    *)
(* the code inspects character by character (dst, parent_dir) are          *)
(* sequences of one-character pieces.  A token of run_cmd is a string, so  *)
(* run_cmd is a sequence of sequences of pieces.                           *)
(***************************************************************************)
EXTENDS Integers, Sequences, FiniteSets, TLC

VARIABLES
    client,         \* self._client: "open" after connect(), "closed" after close()
    link,           \* whether the remote host still answers on the transport
    should_cleanup, \* self.should_cleanup (recorded at construction)
    env,            \* self._env: sequence of <<key, value>> in insertion order
    op,             \* the public method being executed (or last executed)
    pc,             \* position inside that method; "done" when it has returned/raised
    result,         \* outcome of the method: "none", "ok", or the error raised
    force,          \* argument of the last cleanup(force)
    close_called,   \* whether the last cleanup reached self._client.close()
    prev_client,    \* value of client when the current method was called
    cmd,            \* execute_command: the cmd argument
    shell,          \* execute_command: the shell argument
    run_cmd,        \* execute_command: local run_cmd
    sent,           \* execute_command: string handed to chan.exec_command
    chan,           \* calls made on the channel of the current execute_command
    raw,            \* bytes returned by f.read()
    output,         \* execute_command: local output
    exit_code,      \* execute_command: local exit_code
    epc,            \* position inside execute_command
    members,        \* copy_to: base names of the files make_tarfile archived
    dst,            \* copy_to: the dst argument
    total_files,    \* copy_to: local total_files
    archive_path,   \* copy_to: local archive_path
    local_tmp,      \* the NamedTemporaryFile on the local disk: "absent"/"present"
    unlinks,        \* number of os.unlink calls made by the current copy_to
    parent_dir,     \* copy_to: local parent_dir
    tmp_dst,        \* copy_to: local tmp_dst
    scp,            \* state of the SCP transfer of the current copy_to
    remote_tmp,     \* whether the remote temporary archive exists
    remote_files,   \* remote files created by the current copy_to (resolved paths)
    remote_dirs,    \* remote directories created by the current copy_to
    slept,          \* restart: whether time.sleep(120) was reached
    hostname,       \* self._config.get("hostname")
    connects,       \* number of self._client.connect calls made
    opened,         \* channels opened by execute_command during the current method
    started,        \* commands started by execute_command during the current method
    copy_log,       \* steps the current copy_to has attempted, in order
    remote_log,     \* steps the remote host ran for the current method: <<tool, outcome>>
    now,            \* the host clock (datetime.now), in ticks
    boot_age,       \* the device's uptime when the host clock read 0, in ticks
    now_a,          \* get_uptime: datetime.now() of line 110
    uptime_s,       \* start_time: local uptime (whole seconds)
    uptime_res,     \* get_uptime: the value returned, in ticks
    ret_time,       \* host clock when the last get_uptime returned
    have_prev,      \* whether a get_uptime returned right before the current one
    prev_res,       \* what that previous get_uptime returned
    prev_ret        \* host clock when that previous get_uptime returned

sessVars == <<client, link, should_cleanup, env>>
ctlVars == <<op, pc, result, slept>>
cleanupVars == <<force, close_called, prev_client>>
execVars == <<cmd, shell, run_cmd, sent, chan, raw, output, exit_code, epc>>
copyVars == <<members, dst, total_files, archive_path, local_tmp, unlinks,
              parent_dir, tmp_dst, scp, remote_tmp, remote_files, remote_dirs>>
cfgVars == <<hostname, connects>>
auxVars == <<opened, started, copy_log, remote_log>>
clockVars == <<now, boot_age>>
timeVars == <<now_a, uptime_s, uptime_res, ret_time, have_prev, prev_res, prev_ret>>
vars == <<sessVars, ctlVars, cleanupVars, execVars, copyVars,
          cfgVars, auxVars, clockVars, timeVars>>

----------------------------------------------------------------------------
(* Bounds of the model *)

MaxLen == 3     \* longest dst
MaxOut == 3     \* longest raw output
MaxEnv == 2     \* most entries in the env mapping
MaxCmd == 2     \* longest cmd list
MaxTime == 6    \* last tick of the host clock
MaxBoot == 3    \* largest uptime of the device at tick 0
TicksPerSecond == 2     \* resolution of the clocks

SeqsUpTo(S, n) == UNION {[1..k -> S] : k \in 0..n}

----------------------------------------------------------------------------
(* String helpers (Python str methods used by the code) *)

Sep == "/"
CR == "\\r"
LF == "\\n"

EndsWith(s, c) == Len(s) > 0 /\ s[Len(s)] = c

\* str.rstrip(c)
RECURSIVE RStrip(_, _)
RStrip(s, c) == IF EndsWith(s, c) THEN RStrip(SubSeq(s, 1, Len(s) - 1), c) ELSE s

\* str.rfind(c) + 1: index of the last c, 0 when there is none
RFind1(s, c) ==
    LET I == {i \in 1..Len(s) : s[i] = c}
    IN  IF I = {} THEN 0 ELSE CHOOSE i \in I : \A j \in I : j <= i

\* posixpath.dirname
Dirname(p) ==
    LET head == SubSeq(p, 1, RFind1(p, Sep))
    IN  IF head # <<>> /\ (\E i \in 1..Len(head) : head[i] # Sep)
        THEN RStrip(head, Sep) ELSE head

\* pathlib.Path(p).name
PathName(p) == SubSeq(p, RFind1(p, Sep) + 1, Len(p))

\* bytes.replace(b"\r\n", b"\n"): one left-to-right pass over non-overlapping matches
RECURSIVE ReplaceCRLF(_)
ReplaceCRLF(s) ==
    IF Len(s) < 2 THEN s
    ELSE IF s[1] = CR /\ s[2] = LF
         THEN <<LF>> \o ReplaceCRLF(SubSeq(s, 3, Len(s)))
         ELSE <<s[1]>> \o ReplaceCRLF(Tail(s))

\* pieces that contain a character outside shlex's safe set [A-Za-z0-9@%+=:,./_-]
UnsafePieces == {"'", " ", "a b", "echo hi", "mkdir -p ", "tar xf ", " -C ",
                 " && rm -f ", "shutdown -r now", "awk ", "{print $1}",
                 " /proc/uptime"}

\* s.replace("'", "'\"'\"'")
RECURSIVE EscapeQuotes(_)
EscapeQuotes(s) ==
    IF s = <<>> THEN <<>>
    ELSE (IF Head(s) = "'" THEN <<"'\"'\"'">> ELSE <<Head(s)>>) \o EscapeQuotes(Tail(s))

\* shlex.quote
ShlexQuote(s) ==
    IF s = <<>> THEN <<"''">>
    ELSE IF \A i \in 1..Len(s) : s[i] \notin UnsafePieces THEN s
    ELSE <<"'">> \o EscapeQuotes(s) \o <<"'">>

\* shlex.join
RECURSIVE ShlexJoin(_)
ShlexJoin(toks) ==
    IF toks = <<>> THEN <<>>
    ELSE IF Len(toks) = 1 THEN ShlexQuote(toks[1])
    ELSE ShlexQuote(toks[1]) \o <<" ">> \o ShlexJoin(Tail(toks))


----------------------------------------------------------------------------
(* The remote host: how mkdir -p and tar -C resolve a path *)

FirstSep(p) ==
    LET I == {i \in 1..Len(p) : p[i] = Sep}
    IN  IF I = {} THEN 0 ELSE CHOOSE i \in I : \A j \in I : i <= j

RECURSIVE SplitPath(_)
SplitPath(p) ==
    IF FirstSep(p) = 0 THEN <<p>>
    ELSE <<SubSeq(p, 1, FirstSep(p) - 1)>> \o SplitPath(SubSeq(p, FirstSep(p) + 1, Len(p)))

DotDot == <<".", ".">>

RECURSIVE Walk(_, _)
Walk(acc, segs) ==
    IF segs = <<>> THEN acc
    ELSE LET s == Head(segs) IN
         IF s = <<>> \/ s = <<".">> THEN Walk(acc, Tail(segs))
         ELSE IF s # DotDot THEN Walk(Append(acc, s), Tail(segs))
         ELSE IF Len(acc) > 1 /\ acc[Len(acc)] # DotDot
              THEN Walk(SubSeq(acc, 1, Len(acc) - 1), Tail(segs))
         ELSE IF acc[1] = <<Sep>> THEN Walk(acc, Tail(segs))
         ELSE Walk(Append(acc, s), Tail(segs))

\* a resolved path: <<root, segment, ...>>, root <<"/">> or <<"~">> (the login directory)
Resolve(p) ==
    Walk(<<IF p # <<>> /\ p[1] = Sep THEN <<Sep>> ELSE <<"~">>>>, SplitPath(p))

----------------------------------------------------------------------------
(* Inputs *)

PathChars == {Sep, ".", "a"}
Dsts == SeqsUpTo(PathChars, MaxLen)

FileNames == {<<"a">>, <<"b">>}

\* make_tarfile(file, [src]): raises, or archives the files src matches under
\* their own base names and returns how many
MakeTarfile ==
    {[ok |-> FALSE, names |-> {}]} \cup {[ok |-> TRUE, names |-> ms] : ms \in SUBSET FileNames}

RawOutputs == SeqsUpTo({CR, LF, "x"}, MaxOut)

\* what mkdir, tar and shutdown print on the pseudo-terminal: nothing, or one line
ToolOutputs == {<<>>, <<"x", CR, LF>>}

EnvKeys == <<"A", "B", "C", "D">>
Envs == {[i \in 1..n |-> <<EnvKeys[i], "v">>] : n \in 0..MaxEnv}

Words == {<<"ls">>, <<"a b">>}
StrCmd(s) == [list |-> FALSE, toks |-> <<s>>]
ListCmd(l) == [list |-> TRUE, toks |-> l]
Cmds == {StrCmd(w) : w \in Words} \cup {ListCmd(l) : l \in SeqsUpTo(Words, MaxCmd)}

ArchivePath == <<"/", "tmp", "/", "tmpq1w2e3.tar">>

----------------------------------------------------------------------------
(* execute_command *)

use_sudo == TRUE

\* mutant: a list command run in a shell is joined into one token
BuildRunCmdJoinList(e, sh, c) ==
    LET r1 == IF use_sudo THEN <<<<"sudo">>, <<"-E">>>> ELSE <<>>
        envs == <<<<"env">>>> \o [i \in 1..Len(e) |-> <<e[i][1], "=", e[i][2]>>]
        r2 == IF e # <<>> THEN r1 \o envs ELSE r1
        r3 == IF sh THEN r2 \o <<<<"/bin/bash">>, <<"-c">>>> ELSE r2
    IN  IF c.list /\ ~sh THEN r3 \o c.toks
        ELSE IF c.list THEN Append(r3, ShlexJoin(c.toks))
        ELSE Append(r3, c.toks[1])

\* mutant: sudo is left out when the command runs in a shell
BuildRunCmdSudoUnlessShell(e, sh, c) ==
    LET r1 == IF use_sudo /\ ~sh THEN <<<<"sudo">>, <<"-E">>>> ELSE <<>>
        envs == <<<<"env">>>> \o [i \in 1..Len(e) |-> <<e[i][1], "=", e[i][2]>>]
        r2 == IF e # <<>> THEN r1 \o envs ELSE r1
        r3 == IF sh THEN r2 \o <<<<"/bin/bash">>, <<"-c">>>> ELSE r2
    IN  IF c.list THEN r3 \o c.toks ELSE Append(r3, c.toks[1])

\* mutant: the shell wrapper is added before the env prefix
BuildRunCmdShellFirst(e, sh, c) ==
    LET r1 == IF use_sudo THEN <<<<"sudo">>, <<"-E">>>> ELSE <<>>
        envs == <<<<"env">>>> \o [i \in 1..Len(e) |-> <<e[i][1], "=", e[i][2]>>]
        r2 == IF sh THEN r1 \o <<<<"/bin/bash">>, <<"-c">>>> ELSE r1
        r3 == IF e # <<>> THEN r2 \o envs ELSE r2
    IN  IF c.list THEN r3 \o c.toks ELSE Append(r3, c.toks[1])

BuildRunCmd(e, sh, c) ==
    LET r1 == IF use_sudo THEN <<<<"sudo">>, <<"-E">>>> ELSE <<>>
        envs == <<<<"env">>>> \o [i \in 1..Len(e) |-> <<e[i][1], "=", e[i][2]>>]
        r2 == IF e # <<>> THEN r1 \o envs ELSE r1
        r3 == IF sh THEN r2 \o <<<<"/bin/bash">>, <<"-c">>>> ELSE r2
    IN  IF c.list THEN r3 \o c.toks ELSE Append(r3, c.toks[1])

\* mutant: a channel is opened whether or not the client was closed
CanOpenSessionAfterClose == link = "up"

\* self._client.get_transport() is None once the client is closed
CanOpenSession == client = "open" /\ link = "up"

\* assert_command: execute_command returned and the exit code is the expected 0
AssertOk == epc = "return" /\ exit_code = 0

MkdirCmd(dir) == <<"mkdir -p ", "'">> \o dir \o <<"'">>
\* mutant: the archive is extracted and left on the device
ExtractCmdNoRm(tmp, dir) ==
    <<"tar xf ", "'">> \o tmp \o <<"'", " -C ", "'">> \o dir \o <<"'">>

ExtractCmd(tmp, dir) ==
    <<"tar xf ", "'">> \o tmp \o <<"'", " -C ", "'">> \o dir
        \o <<"'", " && rm -f ", "'">> \o tmp \o <<"'">>
ShutdownCmd == <<"shutdown -r now">>
UptimeCmd == <<"awk ", "'", "{print $1}", "'", " /proc/uptime">>

Numerals == <<"0", "1", "2", "3", "4", "5", "6", "7", "8", "9", "10", "11", "12">>

NumeralValue(piece) == (CHOOSE i \in 1..Len(Numerals) : Numerals[i] = piece) - 1

\* what awk prints for an uptime of t ticks: whole seconds, a point, the
\* fraction (in ticks), and the line ending of the pseudo-terminal
FormatUptime(t) ==
    <<Numerals[(t \div TicksPerSecond) + 1], ".", Numerals[(t % TicksPerSecond) + 1],
      CR, LF>>

\* str.strip()
RECURSIVE Strip(_)
Strip(s) ==
    IF s = <<>> THEN s
    ELSE IF Head(s) \in {CR, LF, " "} THEN Strip(Tail(s))
    ELSE IF s[Len(s)] \in {CR, LF, " "} THEN Strip(SubSeq(s, 1, Len(s) - 1))
    ELSE s

\* int(float(output.decode("utf-8").strip())): the fraction is dropped
ParseSeconds(out) == NumeralValue(Strip(out)[1])

\* the value the text stands for, in ticks
ReportedTicks(out) ==
    NumeralValue(Strip(out)[1]) * TicksPerSecond + NumeralValue(Strip(out)[3])

\* what f.read() can return for the command being run
ReadOutputs ==
    IF op = "execute_command" THEN RawOutputs
    ELSE IF op = "get_uptime" THEN {FormatUptime(boot_age + now)}
    ELSE ToolOutputs

\* the tools a command line runs, in order (steps are chained with &&)
ToolOf(piece) ==
    CASE piece = "mkdir -p " -> "mkdir"
      [] piece = "tar xf " -> "tar"
      [] piece = " && rm -f " -> "rm"
      [] piece = "shutdown -r now" -> "shutdown"
      [] piece = "awk " -> "awk"
      [] OTHER -> ""

RECURSIVE RemoteProgram(_)
RemoteProgram(line) ==
    IF line = <<>> THEN <<>>
    ELSE (IF ToolOf(Head(line)) = "" THEN <<>> ELSE <<ToolOf(Head(line))>>)
            \o RemoteProgram(Tail(line))

\* what the remote host ran for a command line that ended with exit code `code`:
\* every step when it is 0, otherwise the first step, which failed
RemoteRun(line, code) ==
    LET prog == RemoteProgram(line)
    IN  IF code = 0 THEN [i \in 1..Len(prog) |-> <<prog[i], "ok">>]
        ELSE IF prog = <<>> THEN <<>>
        ELSE <<<<prog[1], "failed">>>>

Ran(line, code, tool) ==
    \E i \in 1..Len(RemoteRun(line, code)) : RemoteRun(line, code)[i] = <<tool, "ok">>

\* exit codes the remote side can produce for the command being run
PossibleExit ==
    IF op = "copy_to" /\ pc = "mkdir-wait" /\ parent_dir = <<>> THEN {1}
    ELSE IF op = "restart" THEN {0, 1, -1}
    ELSE {0, 1}

ResetExec ==
    /\ cmd' = StrCmd(<<>>) /\ shell' = TRUE /\ run_cmd' = <<>> /\ sent' = <<>>
    /\ chan' = <<>> /\ raw' = <<>> /\ output' = <<>> /\ exit_code' = -1 /\ epc' = "none"

EnterExec(c, sh) ==
    /\ cmd' = c /\ shell' = sh /\ run_cmd' = <<>> /\ sent' = <<>>
    /\ chan' = <<>> /\ raw' = <<>> /\ output' = <<>> /\ exit_code' = -1 /\ epc' = "build"

ResetCopy ==
    /\ members' = {} /\ dst' = <<>> /\ total_files' = 0 /\ archive_path' = <<>>
    /\ local_tmp' = "absent" /\ unlinks' = 0 /\ parent_dir' = <<>> /\ tmp_dst' = <<>>
    /\ scp' = "none" /\ remote_tmp' = FALSE /\ remote_files' = {} /\ remote_dirs' = {}

ResetCleanup == force' = FALSE /\ close_called' = FALSE /\ prev_client' = client

ResetAux == opened' = 0 /\ started' = 0 /\ copy_log' = <<>> /\ remote_log' = <<>>

ResetTime ==
    /\ now_a' = 0 /\ uptime_s' = 0 /\ uptime_res' = 0 /\ ret_time' = 0
    /\ have_prev' = FALSE /\ prev_res' = 0 /\ prev_ret' = 0

Idle == pc = "done"

CallExecuteCommand(c, sh) ==
    /\ Idle
    /\ op' = "execute_command" /\ pc' = "call" /\ result' = "none" /\ slept' = FALSE
    /\ EnterExec(c, sh)
    /\ ResetCopy /\ ResetCleanup
    /\ UNCHANGED sessVars
    /\ ResetAux /\ ResetTime
    /\ UNCHANGED <<cfgVars, clockVars>>

ExecBuild ==
    /\ epc = "build"
    /\ run_cmd' = BuildRunCmd(env, shell, cmd)
    /\ epc' = "open"
    /\ UNCHANGED <<sessVars, ctlVars, cleanupVars, copyVars,
                   cmd, shell, sent, chan, raw, output, exit_code>>
    /\ UNCHANGED <<cfgVars, auxVars, clockVars, timeVars>>

\* mutant: the channel of an earlier command of the same call is used again
ExecOpenCached ==
    /\ epc = "open"
    /\ IF CanOpenSession
       THEN chan' = <<"open_session">> /\ epc' = "start"
       ELSE chan' = chan /\ epc' = "raised"
    /\ UNCHANGED <<sessVars, ctlVars, cleanupVars, copyVars,
                   cmd, shell, run_cmd, sent, raw, output, exit_code>>
    /\ opened' = IF CanOpenSession /\ opened = 0 THEN opened + 1 ELSE opened
    /\ UNCHANGED <<started, copy_log, remote_log, cfgVars, clockVars, timeVars>>

ExecOpen ==
    /\ epc = "open"
    /\ IF CanOpenSession
       THEN chan' = <<"open_session">> /\ epc' = "start"
       ELSE chan' = chan /\ epc' = "raised"
    /\ UNCHANGED <<sessVars, ctlVars, cleanupVars, copyVars,
                   cmd, shell, run_cmd, sent, raw, output, exit_code>>
    /\ opened' = IF CanOpenSession THEN opened + 1 ELSE opened
    /\ UNCHANGED <<started, copy_log, remote_log, cfgVars, clockVars, timeVars>>

\* mutant: the exit status is requested right after exec_command ("Option 2")
ExecStartStatusFirst ==
    /\ epc = "start"
    /\ chan' = chan \o <<"get_pty", "makefile", "exec_command", "recv_exit_status">>
    /\ sent' = ShlexJoin(run_cmd)
    /\ epc' = "read"
    /\ UNCHANGED <<sessVars, ctlVars, cleanupVars, copyVars,
                   cmd, shell, run_cmd, raw, output, exit_code>>
    /\ started' = started + 1
    /\ UNCHANGED <<opened, copy_log, remote_log, cfgVars, clockVars, timeVars>>

ExecStart ==
    /\ epc = "start"
    /\ chan' = chan \o <<"get_pty", "makefile", "exec_command">>
    /\ sent' = ShlexJoin(run_cmd)
    /\ epc' = "read"
    /\ UNCHANGED <<sessVars, ctlVars, cleanupVars, copyVars,
                   cmd, shell, run_cmd, raw, output, exit_code>>
    /\ started' = started + 1
    /\ UNCHANGED <<opened, copy_log, remote_log, cfgVars, clockVars, timeVars>>

ExecRead ==
    /\ epc = "read"
    /\ \E r \in ReadOutputs :
        /\ raw' = r
        /\ output' = ReplaceCRLF(r)
    /\ chan' = Append(chan, "read")
    /\ epc' = "status"
    /\ UNCHANGED <<sessVars, ctlVars, cleanupVars, copyVars,
                   cmd, shell, run_cmd, sent, exit_code>>
    /\ UNCHANGED <<cfgVars, auxVars, clockVars, timeVars>>

ExecStatus ==
    /\ epc = "status"
    /\ \E code \in PossibleExit :
        /\ exit_code' = code
        /\ link' = IF code = -1 THEN "down" ELSE link
        /\ remote_log' = remote_log \o RemoteRun(sent, code)
        /\ remote_dirs' = IF Ran(sent, code, "mkdir")
                          THEN {Resolve(parent_dir)} ELSE remote_dirs
        /\ remote_files' = IF Ran(sent, code, "tar")
                           THEN {Append(Resolve(parent_dir), n) : n \in members}
                           ELSE remote_files
        /\ remote_tmp' = IF Ran(sent, code, "rm") THEN FALSE ELSE remote_tmp
    /\ chan' = chan \o <<"recv_exit_status", "close">>
    /\ epc' = "return"
    /\ UNCHANGED <<client, should_cleanup, env, ctlVars, cleanupVars,
                   cmd, shell, run_cmd, sent, raw, output,
                   members, dst, total_files, archive_path, local_tmp, unlinks,
                   parent_dir, tmp_dst, scp>>
    /\ UNCHANGED <<opened, started, copy_log, cfgVars, clockVars, timeVars>>

ExecuteCommandReturn ==
    /\ op = "execute_command" /\ pc = "call"
    /\ epc \in {"return", "raised"}
    /\ pc' = "done"
    /\ result' = IF epc = "return" THEN "ok" ELSE "error"
    /\ UNCHANGED <<sessVars, op, slept, cleanupVars, execVars, copyVars>>
    /\ UNCHANGED <<cfgVars, auxVars, clockVars, timeVars>>


----------------------------------------------------------------------------
(* copy_to *)

\* mutant: the number of archived files is not looked at
ParentDirNoCount(n, d) ==
    IF EndsWith(d, Sep) \/ d \in {<<".">>, <<".", ".">>}
    THEN RStrip(d, Sep) \o <<Sep>>
    ELSE Dirname(d)

\* the extraction target of copy_to
ParentDir(n, d) ==
    IF n > 1 \/ EndsWith(d, Sep) \/ d \in {<<".">>, <<".", ".">>}
    THEN RStrip(d, Sep) \o <<Sep>>
    ELSE Dirname(d)

TmpDst(archive) == <<"/tmp/">> \o PathName(archive)

CallCopyTo(d) ==
    /\ Idle
    /\ op' = "copy_to" /\ pc' = "archive" /\ result' = "none" /\ slept' = FALSE
    /\ members' = {} /\ dst' = d /\ total_files' = 0 /\ archive_path' = <<>>
    /\ local_tmp' = "absent" /\ unlinks' = 0 /\ parent_dir' = <<>> /\ tmp_dst' = <<>>
    /\ scp' = "none" /\ remote_tmp' = FALSE /\ remote_files' = {} /\ remote_dirs' = {}
    /\ ResetExec /\ ResetCleanup
    /\ UNCHANGED sessVars
    /\ ResetAux /\ ResetTime
    /\ UNCHANGED <<cfgVars, clockVars>>

\* NamedTemporaryFile(delete=False) creates the file; make_tarfile fills it or raises
CopyBuildArchive ==
    /\ op = "copy_to" /\ pc = "archive"
    /\ local_tmp' = "present"
    /\ \E r \in MakeTarfile :
        IF r.ok
        THEN /\ members' = r.names
             /\ total_files' = Cardinality(r.names)
             /\ archive_path' = ArchivePath
             /\ result' = result
             /\ pc' = "target"
        ELSE /\ archive_path' = archive_path
             /\ UNCHANGED <<members, total_files>>
             /\ result' = "archive-error"
             /\ pc' = "finally"
    /\ UNCHANGED <<sessVars, op, slept, cleanupVars, execVars,
                   dst, unlinks, parent_dir, tmp_dst, scp, remote_tmp,
                   remote_files, remote_dirs>>
    /\ copy_log' = Append(copy_log, "archive")
    /\ UNCHANGED <<opened, started, remote_log, cfgVars, clockVars, timeVars>>

CopyTarget ==
    /\ op = "copy_to" /\ pc = "target"
    /\ parent_dir' = ParentDir(total_files, dst)
    /\ tmp_dst' = TmpDst(archive_path)
    /\ pc' = "scp"
    /\ UNCHANGED <<sessVars, op, result, slept, cleanupVars, execVars,
                   members, dst, total_files, archive_path, local_tmp, unlinks,
                   scp, remote_tmp, remote_files, remote_dirs>>
    /\ copy_log' = Append(copy_log, "target")
    /\ UNCHANGED <<opened, started, remote_log, cfgVars, clockVars, timeVars>>

\* scp_client.put opens its channel on self._client.get_transport()
CopyScpStart ==
    /\ op = "copy_to" /\ pc = "scp" /\ scp = "none"
    /\ IF CanOpenSession
       THEN scp' = "transferring" /\ pc' = pc /\ result' = result
       ELSE scp' = "failed" /\ pc' = "finally" /\ result' = "scp-error"
    /\ UNCHANGED <<sessVars, op, slept, cleanupVars, execVars,
                   members, dst, total_files, archive_path, local_tmp, unlinks,
                   parent_dir, tmp_dst, remote_tmp, remote_files, remote_dirs>>
    /\ copy_log' = Append(copy_log, "scp")
    /\ UNCHANGED <<opened, started, remote_log, cfgVars, clockVars, timeVars>>

CopyScpFinish ==
    /\ op = "copy_to" /\ pc = "scp" /\ scp = "transferring"
    /\ \/ /\ scp' = "done" /\ remote_tmp' = TRUE
          /\ pc' = "mkdir" /\ result' = result
       \/ /\ scp' = "failed" /\ remote_tmp' = remote_tmp
          /\ pc' = "finally" /\ result' = "scp-error"
    /\ UNCHANGED <<sessVars, op, slept, cleanupVars, execVars,
                   members, dst, total_files, archive_path, local_tmp, unlinks,
                   parent_dir, tmp_dst, remote_files, remote_dirs>>
    /\ UNCHANGED <<cfgVars, auxVars, clockVars, timeVars>>

CopyMkdir ==
    /\ op = "copy_to" /\ pc = "mkdir"
    /\ EnterExec(StrCmd(MkdirCmd(parent_dir)), TRUE)
    /\ pc' = "mkdir-wait"
    /\ UNCHANGED <<sessVars, op, result, slept, cleanupVars, copyVars>>
    /\ copy_log' = Append(copy_log, "mkdir")
    /\ UNCHANGED <<opened, started, remote_log, cfgVars, clockVars, timeVars>>

\* mutant: the result of mkdir -p is not checked
CopyMkdirReturnUnchecked ==
    /\ op = "copy_to" /\ pc = "mkdir-wait"
    /\ epc \in {"return", "raised"}
    /\ pc' = "extract" /\ result' = result
    /\ UNCHANGED <<sessVars, op, slept, cleanupVars, execVars, copyVars>>
    /\ UNCHANGED <<cfgVars, auxVars, clockVars, timeVars>>

CopyMkdirReturn ==
    /\ op = "copy_to" /\ pc = "mkdir-wait"
    /\ epc \in {"return", "raised"}
    /\ IF AssertOk
       THEN pc' = "extract" /\ result' = result
       ELSE pc' = "finally" /\ result' = "command-error"
    /\ UNCHANGED <<sessVars, op, slept, cleanupVars, execVars, copyVars>>
    /\ UNCHANGED <<cfgVars, auxVars, clockVars, timeVars>>

CopyExtract ==
    /\ op = "copy_to" /\ pc = "extract"
    /\ EnterExec(StrCmd(ExtractCmd(tmp_dst, parent_dir)), TRUE)
    /\ pc' = "extract-wait"
    /\ UNCHANGED <<sessVars, op, result, slept, cleanupVars, copyVars>>
    /\ copy_log' = Append(copy_log, "extract")
    /\ UNCHANGED <<opened, started, remote_log, cfgVars, clockVars, timeVars>>

CopyExtractReturn ==
    /\ op = "copy_to" /\ pc = "extract-wait"
    /\ epc \in {"return", "raised"}
    /\ pc' = "finally"
    /\ result' = IF AssertOk THEN result ELSE "command-error"
    /\ UNCHANGED <<sessVars, op, slept, cleanupVars, execVars, copyVars>>
    /\ UNCHANGED <<cfgVars, auxVars, clockVars, timeVars>>

CopyFinally ==
    /\ op = "copy_to" /\ pc = "finally"
    /\ IF archive_path # <<>> /\ local_tmp = "present"
       THEN /\ local_tmp' = "absent" /\ unlinks' = unlinks + 1
            /\ copy_log' = Append(copy_log, "unlink")
       ELSE UNCHANGED <<local_tmp, unlinks, copy_log>>
    /\ pc' = "done"
    /\ result' = IF result = "none" THEN "ok" ELSE result
    /\ UNCHANGED <<sessVars, op, slept, cleanupVars, execVars,
                   members, dst, total_files, archive_path,
                   parent_dir, tmp_dst, scp, remote_tmp, remote_files, remote_dirs>>
    /\ UNCHANGED <<opened, started, remote_log, cfgVars, clockVars, timeVars>>

----------------------------------------------------------------------------
(* restart *)

CallRestart ==
    /\ Idle
    /\ op' = "restart" /\ pc' = "shutdown-wait" /\ result' = "none" /\ slept' = FALSE
    /\ EnterExec(StrCmd(ShutdownCmd), TRUE)
    /\ ResetCopy /\ ResetCleanup
    /\ UNCHANGED sessVars
    /\ ResetAux /\ ResetTime
    /\ UNCHANGED <<cfgVars, clockVars>>

RestartShutdownReturn ==
    /\ op = "restart" /\ pc = "shutdown-wait"
    /\ epc \in {"return", "raised"}
    /\ IF AssertOk
       THEN pc' = "sleep" /\ result' = result
       ELSE pc' = "done" /\ result' = "command-error"
    /\ UNCHANGED <<sessVars, op, slept, cleanupVars, execVars, copyVars>>
    /\ UNCHANGED <<cfgVars, auxVars, clockVars, timeVars>>

\* time.sleep(120), during which the host may go down, then the raise
RestartSleep ==
    /\ op = "restart" /\ pc = "sleep"
    /\ slept' = TRUE
    /\ link' \in {link, "down"}
    /\ pc' = "done"
    /\ result' = "did-not-restart"
    /\ UNCHANGED <<client, should_cleanup, env, op, cleanupVars, execVars, copyVars>>
    /\ UNCHANGED <<cfgVars, auxVars, clockVars, timeVars>>

----------------------------------------------------------------------------
(* start_time and get_uptime *)

\* get_uptime: datetime.now() is evaluated, then start_time runs its query
CallGetUptime ==
    /\ Idle
    /\ op' = "get_uptime" /\ pc' = "uptime-wait" /\ result' = "none" /\ slept' = FALSE
    /\ now_a' = now
    /\ have_prev' = (op = "get_uptime" /\ result = "ok")
    /\ prev_res' = IF op = "get_uptime" /\ result = "ok" THEN uptime_res ELSE 0
    /\ prev_ret' = IF op = "get_uptime" /\ result = "ok" THEN ret_time ELSE 0
    /\ uptime_s' = 0 /\ uptime_res' = 0 /\ ret_time' = 0
    /\ EnterExec(StrCmd(UptimeCmd), TRUE)
    /\ ResetCopy /\ ResetCleanup /\ ResetAux
    /\ UNCHANGED <<sessVars, cfgVars, clockVars>>

\* start_time parses the output and subtracts it from a second datetime.now();
\* get_uptime subtracts that from the first
GetUptimeReturn ==
    /\ op = "get_uptime" /\ pc = "uptime-wait"
    /\ epc \in {"return", "raised"}
    /\ IF AssertOk
       THEN /\ uptime_s' = ParseSeconds(output)
            /\ uptime_res' = now_a - (now - ParseSeconds(output) * TicksPerSecond)
            /\ result' = "ok"
       ELSE /\ UNCHANGED <<uptime_s, uptime_res>>
            /\ result' = "command-error"
    /\ ret_time' = now
    /\ pc' = "done"
    /\ UNCHANGED <<sessVars, op, slept, cleanupVars, execVars, copyVars,
                   cfgVars, auxVars, clockVars, now_a, have_prev, prev_res, prev_ret>>

\* time passes
Tick ==
    /\ now < MaxTime
    /\ now' = now + 1
    /\ UNCHANGED <<sessVars, ctlVars, cleanupVars, execVars, copyVars,
                   cfgVars, auxVars, boot_age, timeVars>>

----------------------------------------------------------------------------
(* get_device_stats, disconnect_network, connect_network *)

UnsupportedOps == {"get_device_stats", "disconnect_network", "connect_network"}

\* mutant: the method returns without doing anything
UnsupportedNoop(name) ==
    /\ Idle
    /\ op' = name /\ pc' = "done" /\ slept' = FALSE
    /\ result' = "ok"
    /\ ResetExec /\ ResetCopy /\ ResetCleanup /\ ResetAux /\ ResetTime
    /\ UNCHANGED <<sessVars, cfgVars, clockVars>>

Unsupported(name) ==
    /\ Idle
    /\ op' = name /\ pc' = "done" /\ slept' = FALSE
    /\ result' = "NotImplementedError"
    /\ ResetExec /\ ResetCopy /\ ResetCleanup /\ ResetAux /\ ResetTime
    /\ UNCHANGED <<sessVars, cfgVars, clockVars>>

----------------------------------------------------------------------------
(* cleanup *)

\* mutant: cleanup is skipped unless both force and should_cleanup are set
SkipCleanupEither(f, sc) == ~f \/ ~sc

SkipCleanup(f, sc) == ~f /\ ~sc

\* mutant: closing a client that is already closed raises
SSHCloseOnce(c) == [client |-> "closed", err |-> c = "closed"]

\* SSHClient.close(): closes the transport if there is one
SSHClose(c) == [client |-> "closed", err |-> FALSE]

Cleanup(f) ==
    /\ Idle
    /\ op' = "cleanup" /\ pc' = "done" /\ slept' = FALSE
    /\ force' = f
    /\ prev_client' = client
    /\ IF SkipCleanup(f, should_cleanup)
       THEN close_called' = FALSE /\ client' = client /\ result' = "ok"
       ELSE /\ close_called' = TRUE
            /\ client' = SSHClose(client).client
            /\ result' = IF SSHClose(client).err THEN "error" ELSE "ok"
    /\ ResetExec /\ ResetCopy
    /\ UNCHANGED <<link, should_cleanup, env>>
    /\ ResetAux /\ ResetTime
    /\ UNCHANGED <<cfgVars, clockVars>>

----------------------------------------------------------------------------
(* __init__ and _connect *)

\* config.get("hostname"): absent (None), empty, or a host
Hostnames == {"None", "", "10.0.0.5"}

Truthy(h) == h \notin {"None", ""}

\* mutant: connect is called before the hostname is checked
ConstructConnectFirst ==
    /\ op = "new" /\ pc = "connect"
    /\ connects' = connects + 1
    /\ IF ~Truthy(hostname)
       THEN /\ result' = "AssertionError" /\ pc' = "failed"
            /\ UNCHANGED <<client, op>>
       ELSE \E ok \in BOOLEAN :
            IF ok
            THEN client' = "open" /\ op' = "init" /\ pc' = "done" /\ result' = "ok"
            ELSE /\ result' = "connect-error" /\ pc' = "failed"
                 /\ UNCHANGED <<client, op>>
    /\ UNCHANGED <<link, should_cleanup, env, slept, hostname, cleanupVars, execVars,
                   copyVars, auxVars, clockVars, timeVars>>

\* SSHDeviceAdapter(...): the hostname assertion, then one connect attempt
Construct ==
    /\ op = "new" /\ pc = "connect"
    /\ IF ~Truthy(hostname)
       THEN /\ result' = "AssertionError" /\ pc' = "failed"
            /\ UNCHANGED <<client, op, connects>>
       ELSE /\ connects' = connects + 1
            /\ \E ok \in BOOLEAN :
                IF ok
                THEN client' = "open" /\ op' = "init" /\ pc' = "done" /\ result' = "ok"
                ELSE /\ result' = "connect-error" /\ pc' = "failed"
                     /\ UNCHANGED <<client, op>>
    /\ UNCHANGED <<link, should_cleanup, env, slept, hostname, cleanupVars, execVars,
                   copyVars, auxVars, clockVars, timeVars>>

----------------------------------------------------------------------------

Init ==
    /\ client = "open" /\ link = "up"
    /\ should_cleanup \in BOOLEAN
    /\ env \in Envs
    /\ op = "init" /\ pc = "done" /\ result = "ok" /\ slept = FALSE
    /\ force = FALSE /\ close_called = FALSE /\ prev_client = "open"
    /\ cmd = StrCmd(<<>>) /\ shell = TRUE /\ run_cmd = <<>> /\ sent = <<>>
    /\ chan = <<>> /\ raw = <<>> /\ output = <<>> /\ exit_code = -1 /\ epc = "none"
    /\ members = {} /\ dst = <<>> /\ total_files = 0 /\ archive_path = <<>>
    /\ local_tmp = "absent" /\ unlinks = 0 /\ parent_dir = <<>> /\ tmp_dst = <<>>
    /\ scp = "none" /\ remote_tmp = FALSE /\ remote_files = {} /\ remote_dirs = {}
    /\ hostname = "10.0.0.5" /\ connects = 1
    /\ opened = 0 /\ started = 0 /\ copy_log = <<>> /\ remote_log = <<>>
    /\ now = 0 /\ boot_age = 1
    /\ now_a = 0 /\ uptime_s = 0 /\ uptime_res = 0 /\ ret_time = 0
    /\ have_prev = FALSE /\ prev_res = 0 /\ prev_ret = 0

Next ==
    \/ \E c \in Cmds, sh \in BOOLEAN : CallExecuteCommand(c, sh)
    \/ ExecBuild
    \/ ExecOpen
    \/ ExecStart
    \/ ExecRead
    \/ ExecStatus
    \/ ExecuteCommandReturn
    \/ \E d \in Dsts : CallCopyTo(d)
    \/ CopyBuildArchive
    \/ CopyTarget
    \/ CopyScpStart
    \/ CopyScpFinish
    \/ CopyMkdir
    \/ CopyMkdirReturn
    \/ CopyExtract
    \/ CopyExtractReturn
    \/ CopyFinally
    \/ CallRestart
    \/ RestartShutdownReturn
    \/ RestartSleep
    \/ CallGetUptime
    \/ GetUptimeReturn
    \/ \E name \in UnsupportedOps : Unsupported(name)
    \/ \E f \in BOOLEAN : Cleanup(f)

Spec == Init /\ [][Next]_vars

\* the adapter from before its construction
InitNew ==
    /\ client = "new" /\ link = "up"
    /\ should_cleanup \in BOOLEAN
    /\ env \in Envs
    /\ op = "new" /\ pc = "connect" /\ result = "none" /\ slept = FALSE
    /\ force = FALSE /\ close_called = FALSE /\ prev_client = "new"
    /\ cmd = StrCmd(<<>>) /\ shell = TRUE /\ run_cmd = <<>> /\ sent = <<>>
    /\ chan = <<>> /\ raw = <<>> /\ output = <<>> /\ exit_code = -1 /\ epc = "none"
    /\ members = {} /\ dst = <<>> /\ total_files = 0 /\ archive_path = <<>>
    /\ local_tmp = "absent" /\ unlinks = 0 /\ parent_dir = <<>> /\ tmp_dst = <<>>
    /\ scp = "none" /\ remote_tmp = FALSE /\ remote_files = {} /\ remote_dirs = {}
    /\ hostname \in Hostnames /\ connects = 0
    /\ opened = 0 /\ started = 0 /\ copy_log = <<>> /\ remote_log = <<>>
    /\ now = 0 /\ boot_age = 1
    /\ now_a = 0 /\ uptime_s = 0 /\ uptime_res = 0 /\ ret_time = 0
    /\ have_prev = FALSE /\ prev_res = 0 /\ prev_ret = 0

\* get_uptime with the clocks running
InitTimed ==
    /\ client = "open" /\ link = "up"
    /\ should_cleanup = FALSE
    /\ env = <<>>
    /\ op = "init" /\ pc = "done" /\ result = "ok" /\ slept = FALSE
    /\ force = FALSE /\ close_called = FALSE /\ prev_client = "open"
    /\ cmd = StrCmd(<<>>) /\ shell = TRUE /\ run_cmd = <<>> /\ sent = <<>>
    /\ chan = <<>> /\ raw = <<>> /\ output = <<>> /\ exit_code = -1 /\ epc = "none"
    /\ members = {} /\ dst = <<>> /\ total_files = 0 /\ archive_path = <<>>
    /\ local_tmp = "absent" /\ unlinks = 0 /\ parent_dir = <<>> /\ tmp_dst = <<>>
    /\ scp = "none" /\ remote_tmp = FALSE /\ remote_files = {} /\ remote_dirs = {}
    /\ hostname = "10.0.0.5" /\ connects = 1
    /\ opened = 0 /\ started = 0 /\ copy_log = <<>> /\ remote_log = <<>>
    /\ now = 0 /\ boot_age \in 0..MaxBoot
    /\ now_a = 0 /\ uptime_s = 0 /\ uptime_res = 0 /\ ret_time = 0
    /\ have_prev = FALSE /\ prev_res = 0 /\ prev_ret = 0

NextTimed ==
    \/ CallGetUptime
    \/ ExecBuild
    \/ ExecOpen
    \/ ExecStart
    \/ ExecRead
    \/ ExecStatus
    \/ GetUptimeReturn
    \/ Tick

SpecTimed == InitTimed /\ [][NextTimed]_vars

NextNew ==
    \/ Construct
    \/ Next

SpecNew == InitNew /\ [][NextNew]_vars


----------------------------------------------------------------------------
(* Properties *)

Returned == pc = "done"

\* C1: when copy_to returns or raises, the local temporary archive no longer
\* exists and was unlinked at most once, whatever step failed.
C1_LocalArchiveDeleted ==
    (op = "copy_to" /\ Returned) => (local_tmp = "absent" /\ unlinks <= 1)

\* C2: on a channel, recv_exit_status is requested only after the output
\* stream has been read.
C2_ExitStatusAfterRead ==
    \A i \in 1..Len(chan) :
        chan[i] = "recv_exit_status" => \E j \in 1..(i - 1) : chan[j] = "read"

C2_Witness ==
    /\ epc = "return"
    /\ \E i \in 1..Len(chan) : chan[i] = "recv_exit_status"

HasCRLF(s) == \E i \in 1..(Len(s) - 1) : s[i] = CR /\ s[i + 1] = LF

\* C3: the output returned by execute_command contains no CR immediately
\* followed by LF, for every raw output.
C3_NoCRLFInOutput ==
    (op = "execute_command" /\ Returned /\ result = "ok") => ~HasCRLF(output)

Payload == IF cmd.list THEN cmd.toks ELSE <<cmd.toks[1]>>
SudoLen == IF use_sudo THEN 2 ELSE 0
EnvLen == IF env = <<>> THEN 0 ELSE Len(env) + 1
ShellLen == IF shell THEN 2 ELSE 0

\* C4: run_cmd is the sudo prefix, then the env prefix (one K=V token per
\* entry), then the shell wrapper, then the payload; a disabled part
\* contributes no token.
C4_TokenOrder ==
    (epc \notin {"none", "build"}) =>
        /\ Len(run_cmd) = SudoLen + EnvLen + ShellLen + Len(Payload)
        /\ use_sudo => (run_cmd[1] = <<"sudo">> /\ run_cmd[2] = <<"-E">>)
        /\ env # <<>> =>
            /\ run_cmd[SudoLen + 1] = <<"env">>
            /\ \A i \in 1..Len(env) :
                run_cmd[SudoLen + 1 + i] = <<env[i][1], "=", env[i][2]>>
        /\ shell =>
            /\ run_cmd[SudoLen + EnvLen + 1] = <<"/bin/bash">>
            /\ run_cmd[SudoLen + EnvLen + 2] = <<"-c">>
        /\ \A i \in 1..Len(Payload) :
            run_cmd[SudoLen + EnvLen + ShellLen + i] = Payload[i]

C4_Witness ==
    /\ op = "execute_command" /\ Returned /\ result = "ok"
    /\ Len(env) = 2 /\ shell /\ cmd.list /\ Len(cmd.toks) = 2

\* C5: after a successful copy_to of exactly one file to a dst that names the
\* file, the file is on the remote at exactly dst, and no directory was
\* created at dst.
C5_SingleFileLandsAtDst ==
    (/\ op = "copy_to" /\ Returned /\ result = "ok"
     /\ total_files = 1
     /\ ~EndsWith(dst, Sep) /\ dst \notin {<<".">>, <<".", ".">>}
     /\ PathName(dst) \notin {<<".">>, <<".", ".">>})
    => (remote_files = {Resolve(dst)} /\ Resolve(dst) \notin remote_dirs)

ExactlyOneTrailingSep(s) ==
    /\ EndsWith(s, Sep)
    /\ ~(Len(s) >= 2 /\ s[Len(s) - 1] = Sep)

\* C6: with two or more files archived, the target computed for d is the one
\* computed for d followed by one or several separators, the mkdir and tar
\* commands are the same, and the target ends with exactly one separator.
C6_DirTargetIgnoresTrailingSep ==
    (op = "copy_to" /\ pc \notin {"archive", "target"} /\ archive_path # <<>>
        /\ total_files > 1) =>
        /\ ExactlyOneTrailingSep(parent_dir)
        /\ \A k \in 1..2 :
            LET d2 == dst \o [i \in 1..k |-> Sep]
                p2 == ParentDir(total_files, d2)
            IN  /\ parent_dir = p2
                /\ MkdirCmd(parent_dir) = MkdirCmd(p2)
                /\ ExtractCmd(tmp_dst, parent_dir) = ExtractCmd(tmp_dst, p2)

C6_Witness ==
    /\ op = "copy_to" /\ Returned /\ result = "ok"
    /\ total_files = 2
    /\ dst # <<>> /\ ~EndsWith(dst, Sep)
    /\ remote_dirs = {Resolve(dst)}

\* C7: restart waits only after a confirmed shutdown command, fails without
\* waiting otherwise, signals the fatal failure after the wait only if the
\* session still responds, and never reports success while connected.
C7_RestartProtocol ==
    /\ slept => (op = "restart" /\ epc = "return" /\ exit_code = 0)
    /\ (op = "restart" /\ Returned /\ ~(epc = "return" /\ exit_code = 0))
        => (~slept /\ result = "command-error")
    /\ (op = "restart" /\ Returned /\ result = "did-not-restart")
        => (slept /\ link = "up")
    /\ (op = "restart" /\ Returned /\ result = "ok") => link = "down"

InProgress ==
    \/ chan # <<>> /\ chan[Len(chan)] # "close"
    \/ scp = "transferring"

\* C8: a command or transfer is in progress only while the session is open;
\* once cleanup closed the session no channel is opened, no transfer started
\* and no command sent.
C8_NoUseWhileClosed ==
    /\ InProgress => client = "open"
    /\ client = "closed" =>
        (chan = <<>> /\ sent = <<>> /\ scp \in {"none", "failed"} /\ ~remote_tmp)

C8_Witness ==
    /\ client = "closed"
    /\ op = "copy_to" /\ Returned /\ result = "scp-error"

\* C9: cleanup(force) closes the session iff force or should_cleanup is true;
\* otherwise it returns with the session as it was.
C9_CleanupClosesIff ==
    op = "cleanup" =>
        /\ close_called <=> (force \/ should_cleanup)
        /\ close_called => client = "closed"
        /\ ~close_called => client = prev_client

C9_Witness ==
    op = "cleanup" /\ ~force /\ ~should_cleanup /\ client = "open"

\* C10: a closing cleanup on an already closed session raises nothing and
\* leaves it closed; a second closing cleanup in a row changes nothing.
C10_CloseIdempotent ==
    /\ [](op = "cleanup" /\ close_called /\ prev_client = "closed"
            => client = "closed" /\ result = "ok")
    /\ [][(op = "cleanup" /\ close_called /\ op' = "cleanup" /\ close_called')
            => (client' = client /\ result' = result /\ link' = link
                /\ execVars' = execVars /\ copyVars' = copyVars)]_vars

C10_Witness ==
    /\ op = "cleanup" /\ close_called /\ prev_client = "closed"
    /\ client = "closed" /\ result = "ok"


\* C11: with the hostname absent or empty the construction fails with the
\* configuration error and connect is never called; with a hostname connect is
\* called exactly once, and its failure is surfaced without a second attempt.
C11_ConnectOnce ==
    /\ connects <= 1
    /\ (pc = "connect") => connects = 0
    /\ (pc # "connect" /\ ~Truthy(hostname)) =>
        (connects = 0 /\ pc = "failed" /\ result = "AssertionError" /\ client = "new")
    /\ (pc # "connect" /\ Truthy(hostname)) => connects = 1
    /\ (pc = "failed" /\ Truthy(hostname)) => (result = "connect-error" /\ client = "new")

C11_Witness ==
    pc = "failed" /\ hostname = "" /\ connects = 0 /\ result = "AssertionError"


Count(seq, x) == Cardinality({i \in 1..Len(seq) : seq[i] = x})

C16_UptimeNonNegativeMonotonic ==
    (op = "get_uptime" /\ Returned /\ result = "ok") =>
        /\ ReportedTicks(output) > 0 => uptime_res >= 0
        /\ have_prev => uptime_res >= prev_res + (now_a - prev_ret) - TicksPerSecond


\* C13: every command line sent to the remote host, whatever method issues
\* it and whatever the shell flag and the env mapping, begins with sudo -E.
C13_AlwaysSudo ==
    /\ (epc \notin {"none", "build"}) =>
        (Len(run_cmd) >= 2 /\ run_cmd[1] = <<"sudo">> /\ run_cmd[2] = <<"-E">>)
    /\ (sent # <<>> \/ Count(chan, "exec_command") > 0) =>
        (Len(sent) >= 3 /\ sent[1] = "sudo" /\ sent[2] = " " /\ sent[3] = "-E")

C13_Witness ==
    /\ op = "get_uptime" /\ Returned /\ result = "ok"
    /\ Len(env) = MaxEnv
    /\ sent[1] = "sudo" /\ sent[3] = "-E"

\* C14: get_device_stats, disconnect_network and connect_network always raise
\* the unsupported-operation error, with the session open or closed; they
\* open no channel, send no command and leave the session as it was.
C14_UnsupportedAlwaysRaise ==
    op \in UnsupportedOps =>
        /\ Returned /\ result = "NotImplementedError"
        /\ chan = <<>> /\ sent = <<>> /\ opened = 0 /\ started = 0 /\ scp = "none"
        /\ remote_log = <<>>
        /\ client = prev_client

C14_Witness ==
    /\ op = "disconnect_network" /\ result = "NotImplementedError"
    /\ client = "closed"


InLog(log, tool, status) == \E i \in 1..Len(log) : log[i] = <<tool, status>>

\* C15: when the extraction succeeds the remote temporary archive is removed
\* by the same composite command, right after the extraction and never
\* before it; after a copy_to that returns normally neither the local nor the
\* remote temporary archive exists.
C15_RemoteArchiveRemovedWithExtract ==
    /\ [](/\ \A i \in 1..Len(remote_log) :
                /\ remote_log[i] = <<"tar", "ok">> =>
                      (i < Len(remote_log) /\ remote_log[i + 1] = <<"rm", "ok">>)
                /\ remote_log[i][1] = "rm" =>
                      (i > 1 /\ remote_log[i - 1] = <<"tar", "ok">>)
          /\ (op = "copy_to" /\ Returned /\ result = "ok") =>
                (local_tmp = "absent" /\ ~remote_tmp /\ InLog(remote_log, "rm", "ok")))
    /\ [][(~Idle /\ remote_tmp /\ ~remote_tmp') =>
            /\ op = "copy_to" /\ pc = "extract-wait" /\ epc = "status"
            /\ RemoteRun(sent, exit_code') = <<<<"tar", "ok">>, <<"rm", "ok">>>>
            /\ remote_log' = remote_log \o <<<<"tar", "ok">>, <<"rm", "ok">>>>]_vars

C15_Witness ==
    /\ op = "copy_to" /\ Returned /\ result = "ok"
    /\ remote_log = <<<<"mkdir", "ok">>, <<"tar", "ok">>, <<"rm", "ok">>>>
    /\ local_tmp = "absent" /\ ~remote_tmp

CopySteps == <<"archive", "target", "scp", "mkdir", "extract", "unlink">>

StepIndex(step) == CHOOSE i \in 1..Len(CopySteps) : CopySteps[i] = step

\* C17: copy_to takes its steps in the order archive, target, scp, mkdir,
\* extract, unlink, each at most once; mkdir is issued only after a completed
\* transfer and extract only after a successful mkdir; a failed step makes
\* copy_to raise.
C17_CopyStepsInOrder ==
    op = "copy_to" =>
        /\ \A i \in 1..Len(copy_log) : copy_log[i] \in {CopySteps[j] : j \in 1..Len(CopySteps)}
        /\ \A i \in 1..Len(copy_log) : \A j \in 1..Len(copy_log) :
              i < j => StepIndex(copy_log[i]) < StepIndex(copy_log[j])
        /\ \A i \in 1..Len(copy_log) :
              (copy_log[i] # "unlink" /\ i > 1) =>
                  StepIndex(copy_log[i]) = StepIndex(copy_log[i - 1]) + 1
        /\ Count(copy_log, "mkdir") > 0 => scp = "done"
        /\ Count(copy_log, "extract") > 0 => InLog(remote_log, "mkdir", "ok")
        /\ opened <= 2 /\ started <= 2
        /\ Count(remote_log, <<"mkdir", "ok">>) + Count(remote_log, <<"mkdir", "failed">>) <= 1
        /\ Count(remote_log, <<"tar", "ok">>) + Count(remote_log, <<"tar", "failed">>) <= 1
        /\ (Returned /\ result = "ok") =>
              /\ copy_log = CopySteps
              /\ remote_log = <<<<"mkdir", "ok">>, <<"tar", "ok">>, <<"rm", "ok">>>>
        /\ (Returned /\ (scp = "failed" \/ InLog(remote_log, "mkdir", "failed")
                          \/ InLog(remote_log, "tar", "failed"))) => result # "ok"

C17_Witness ==
    /\ op = "copy_to" /\ Returned /\ result = "command-error"
    /\ copy_log = <<"archive", "target", "scp", "mkdir", "unlink">>
    /\ remote_log = <<<<"mkdir", "failed">>>>

\* C18: after a copy_to whose transfer succeeded, the remote temporary
\* archive is still there only if the extraction was run and failed.
C18_RemoteArchiveLeftOnlyByExtract ==
    (op = "copy_to" /\ Returned /\ scp = "done" /\ remote_tmp) =>
        InLog(remote_log, "tar", "failed")


PayloadLen == IF cmd.list THEN Len(cmd.toks) ELSE 1

\* C19: the last tokens of run_cmd are the command: one token for a string,
\* the n elements in order for a list of n, with shell set or not, and the
\* line sent has one word per token; while execute_command runs, the command
\* given and the env mapping keep their values.
C19_PayloadTokens ==
    /\ []((epc \notin {"none", "build"}) =>
            /\ Len(run_cmd) >= PayloadLen
            /\ Len(run_cmd) - PayloadLen = SudoLen + EnvLen + ShellLen
            /\ \A i \in 1..PayloadLen :
                  run_cmd[Len(run_cmd) - PayloadLen + i] = cmd.toks[i]
            /\ sent # <<>> => Count(sent, " ") + 1 = Len(run_cmd))
    /\ [][(epc \in {"build", "open", "start", "read", "status"}) =>
            (cmd' = cmd /\ env' = env /\ shell' = shell)]_vars

C19_Witness ==
    /\ op = "execute_command" /\ Returned /\ result = "ok"
    /\ shell /\ cmd.list /\ Len(cmd.toks) = MaxCmd /\ cmd.toks[1] # cmd.toks[MaxCmd]
    /\ Len(run_cmd) = SudoLen + EnvLen + ShellLen + MaxCmd

====
